---- MODULE Spec2Model ----
(***************************************************************************)
(* A model of study_tetris (src/src/main.rs): the Bevy systems of the game *)
(* as the steps of one frame, in the order main() declares them.           *)
(*                                                                         *)
(* One frame is: First (delete_line), then Update (spawn_block,            *)
(* game_timer, block_horizontal_move, block_vertical_move, block_rotate,   *)
(* block_fall, gameover), then the deferred Commands of Update are applied *)
(* and the event buffers rotate.  position_transform only writes the       *)
(* render transform and is left out.                                       *)
(***************************************************************************)
EXTENDS Integers, Sequences, FiniteSets, TLC

\* ---------------------------------------------------------------- constants
X_LENGTH == 10
Y_LENGTH == 18
\* GameBoard(vec![vec![false; 25]; 25])
BOARD_SIZE == 25

\* ------------------------------------------------------------------- bounds
\* Key presses the player may make once the scripted opening has been played.
MaxKeys == 1
\* Pieces that may be spawned once the scripted opening has been played.
MaxSpawns == 0
\* Rows below row 0 that are told apart (the i32 row is unbounded below): a
\* piece whose cells are all at row -MaxDepth or lower stands for the piece at
\* every lower place, where every system treats it the same.
MaxDepth == 2

\* ------------------------------------------------------------------ catalog
BlockPatterns ==
  << << <<0, 0>>, <<0, -1>>, <<0, 1>>, <<0, 2>> >>,     \* I
     << <<0, 0>>, <<0, -1>>, <<0, 1>>, <<-1, 1>> >>,    \* L
     << <<0, 0>>, <<0, -1>>, <<0, 1>>, <<1, 1>> >>,     \* mirrored L
     << <<0, 0>>, <<0, -1>>, <<1, 0>>, <<1, 1>> >>,     \* Z
     << <<0, 0>>, <<1, 0>>, <<0, 1>>, <<1, -1>> >>,     \* mirrored Z
     << <<0, 0>>, <<0, 1>>, <<1, 0>>, <<1, 1>> >>,      \* square
     << <<0, 0>>, <<-1, 0>>, <<1, 0>>, <<0, 1>> >> >>   \* T

ShapeI == 1
ShapeSquare == 6
ShapeZ == 4
ShapeT == 7

\* next_block: a uniform draw over the catalog.
next_block == 1..Len(BlockPatterns)

\* ------------------------------------------------------------------ helpers
\* `v as u32 >= n` for an i32 v and a small n: a negative v wraps to a value
\* of at least 2^31.
U32Ge(v, n) == v < 0 \/ v >= n
\* `v as u32 <= n`
U32Le(v, n) == v >= 0 /\ v <= n
\* `v as u32 == n`
U32Eq(v, n) == v = n

\* A Vec index `v as usize` of the 25 x 25 board that does not panic.
InBoard(v) == v >= 0 /\ v < BOARD_SIZE

\* Iterator::all / Iterator::any over per-cell outcomes in iteration order:
\* the outcome at the first cell that stops the iteration, or `dflt`.
FirstStop(results, cont, dflt) ==
  LET stops == {i \in 1..Len(results) : results[i] # cont}
  IN  IF stops = {} THEN dflt
      ELSE results[CHOOSE i \in stops : \A j \in stops : i <= j]

\* ------------------------------------------------------------------ scripts
\* The inputs of one frame: the catalog draw of spawn_block, the timers
\* (0: neither finishes, 1: the 100 ms input timer, 2: both timers, the
\* 400 ms period being a multiple of the 100 ms one) and the keys.
Frame(s, t, k) == [shape |-> s, tick |-> t, keys |-> k]

Idle(s) == Frame(s, 0, {})
Tick == Frame(ShapeI, 2, {})
Down == Frame(ShapeI, 0, {"Down"})
DropLock == Frame(ShapeI, 2, {"Down"})
Right == Frame(ShapeI, 1, {"Right"})
Left == Frame(ShapeI, 1, {"Left"})
Up == Frame(ShapeI, 0, {"Up"})

Rep(f, n) == [i \in 1..n |-> f]

\* One piece of each catalog shape is spawned.
ShapeOpenings == [s \in 1..Len(BlockPatterns) |-> << Idle(s) >>]

\* Four I pieces hard-dropped at the spawn column: a stack up to row 15.
StackOpening == << Idle(ShapeI), DropLock, Idle(ShapeI), DropLock,
                   Idle(ShapeI), DropLock, Idle(ShapeI), DropLock >>

\* A fifth I is spawned above the stack.
FifthOpening == StackOpening \o << Idle(ShapeI) >>

\* A square is hard-dropped on the stack: its top is row 17.
TopOpening == StackOpening \o << Idle(ShapeSquare), DropLock >>

\* A square is spawned above the stack whose top is row 17.
AboveOpening == TopOpening \o << Idle(ShapeSquare) >>

\* An I is drawn above the stack whose top is row 17, its spawn collides;
\* two more frames in which an I is drawn.
CollisionOpening == TopOpening \o Rep(Idle(ShapeI), 3)

\* A square is shifted right five times at the spawn rows.
RightOpening == << Idle(ShapeSquare) >> \o Rep(Right, 5)

\* An I is hard-dropped, shifted left and locked; a second I is spawned.
StaleOpening == << Idle(ShapeI), Down, Left, Tick, Idle(ShapeI) >>

\* An I falls three rows and is rotated three times.
RotateOpening == << Idle(ShapeI) >> \o Rep(Tick, 3) \o Rep(Up, 3)

\* A flat I at columns 0..3 and one at columns 4..7 of row 0, then a square
\* at columns 8 and 9: row 0 is full when the square locks.
LineOpening ==
  << Idle(ShapeI) >> \o Rep(Tick, 3) \o << Up >> \o Rep(Left, 4) \o << DropLock >>
  \o << Idle(ShapeI) >> \o Rep(Tick, 3) \o << Up, DropLock >>
  \o << Idle(ShapeSquare) >> \o Rep(Right, 3) \o << DropLock >>

\* An I is hard-dropped and not yet locked.
DroppedOpening == << Idle(ShapeI), Down >>

\* A square at columns 8 and 9, an upright I on it in column 9 (rows 2..5,
\* its anchor at row 3 before its cell at row 2), then a flat I at columns
\* 0..3 and one at columns 4..7 of row 0: row 0 is full when the last locks.
CompactOpening ==
  << Idle(ShapeSquare) >> \o Rep(Right, 3) \o << DropLock >>
  \o << Idle(ShapeI) >> \o Rep(Right, 4) \o << DropLock >>
  \o << Idle(ShapeI) >> \o Rep(Tick, 3) \o << Up >> \o Rep(Left, 4) \o << DropLock >>
  \o << Idle(ShapeI) >> \o Rep(Tick, 3) \o << Up, DropLock >>

\* An I is hard-dropped in column 5, shifted left and locked in column 4;
\* then a flat I is locked at columns 0..3 and one at columns 6..9 of row 0.
MarksOpening ==
  << Idle(ShapeI), Down, Left, Tick >>
  \o << Idle(ShapeI) >> \o Rep(Tick, 3) \o << Up >> \o Rep(Left, 4) \o << DropLock >>
  \o << Idle(ShapeI) >> \o Rep(Tick, 3) \o << Up >> \o Rep(Right, 2) \o << DropLock >>

\* On the stack a Z is rotated flat and locked at (4,17), (5,17), (5,16),
\* (6,16): nothing is under (4,17).  A T is spawned, shifted left twice to
\* (2,18), (3,18), (4,18), (3,19) and falls one row.
OverhangOpening ==
  StackOpening
  \o << Idle(ShapeZ), Tick, Frame(ShapeI, 2, {"Up"}) >>
  \o << Idle(ShapeT), Left, Left, Tick >>

\* Down is pressed in the frame of the first spawn, whose cells do not exist
\* before the frame ends.
EarlyDropOpening == << Down >>

\* The openings a run may start with, the first with nothing scripted; the
\* player is free after the last scripted frame.
Scripts ==
  << << >> >> \o ShapeOpenings \o
  << FifthOpening, AboveOpening, CollisionOpening, RightOpening, StaleOpening,
     RotateOpening, LineOpening, DroppedOpening, EarlyDropOpening,
     CompactOpening, MarksOpening, OverhangOpening >>

\* -------------------------------------------------------------- spawn_block
initial_x == X_LENGTH \div 2
\* initial_y with the `- 4` the source has commented out.
initial_y_lowered == Y_LENGTH - 4

initial_y == Y_LENGTH

\* The four cells of a catalog shape at the spawn anchor, in catalog order.
SpawnCells(shape) ==
  [i \in 1..Len(BlockPatterns[shape]) |->
     [x |-> initial_x + BlockPatterns[shape][i][1],
      y |-> initial_y + BlockPatterns[shape][i][2],
      rx |-> BlockPatterns[shape][i][1],
      ry |-> BlockPatterns[shape][i][2]]]

\* let gameover = new_block.iter().any(|..| game_board.0[pos_y][pos_x])
SpawnCollides(shape, b) ==
  \E i \in 1..Len(BlockPatterns[shape]) :
     <<initial_x + BlockPatterns[shape][i][1],
       initial_y + BlockPatterns[shape][i][2]>> \in b

\* --------------------------------------------------------------- block_fall
\* The closure of cannot_fall for one cell.
CannotFallCell(c, b) ==
  IF U32Ge(c.x, X_LENGTH) \/ U32Ge(c.y, Y_LENGTH) THEN FALSE
  ELSE c.y = 0 \/ <<c.x, c.y - 1>> \in b

CannotFall(cells, b) == \E i \in 1..Len(cells) : CannotFallCell(cells[i], b)

\* game_board.0[pos.y as usize][pos.x as usize] = true panics off the board.
LockPanics(cells) ==
  \E i \in 1..Len(cells) : ~InBoard(cells[i].y) \/ ~InBoard(cells[i].x)

LockMarks(cells, b) == b \cup {<<cells[i].x, cells[i].y>> : i \in 1..Len(cells)}

FallCells(cells) == [i \in 1..Len(cells) |-> [cells[i] EXCEPT !.y = @ - 1]]

\* ---------------------------------------------------- block_horizontal_move
\* The closure of ok_move_left for one cell: "true", "false" or "panic".
OkMoveLeftCell(c, b) ==
  IF U32Ge(c.y, Y_LENGTH) THEN (IF c.x > 0 THEN "true" ELSE "false")
  ELSE IF c.x = 0 THEN "false"
  ELSE IF ~InBoard(c.y) \/ c.x < 0 \/ ~InBoard(c.x - 1) THEN "panic"
  ELSE IF <<c.x - 1, c.y>> \in b THEN "false" ELSE "true"

\* The closure of ok_move_right for one cell.
OkMoveRightCell(c, b) ==
  IF U32Ge(c.y, Y_LENGTH) THEN (IF U32Le(c.x, X_LENGTH) THEN "true" ELSE "false")
  ELSE IF U32Eq(c.x, X_LENGTH - 1) THEN "false"
  ELSE IF ~InBoard(c.y) \/ c.x < 0 \/ ~InBoard(c.x + 1) THEN "panic"
  ELSE IF <<c.x + 1, c.y>> \in b THEN "false" ELSE "true"

OkMoveLeft(cells, b) ==
  FirstStop([i \in 1..Len(cells) |-> OkMoveLeftCell(cells[i], b)], "true", "true")

OkMoveRight(cells, b) ==
  FirstStop([i \in 1..Len(cells) |-> OkMoveRightCell(cells[i], b)], "true", "true")

ShiftCells(cells, dx) == [i \in 1..Len(cells) |-> [cells[i] EXCEPT !.x = @ + dx]]

\* The Left branch, then the Right branch on the cells the Left branch left.
HorizontalMove(cells, b, left, right) ==
  LET l == IF left THEN OkMoveLeft(cells, b) ELSE "false"
      c1 == IF l = "true" THEN ShiftCells(cells, -1) ELSE cells
      r == IF l = "panic" THEN "panic"
           ELSE IF right THEN OkMoveRight(c1, b) ELSE "false"
  IN  [cells |-> IF r = "true" THEN ShiftCells(c1, 1) ELSE c1,
       panic |-> r = "panic"]

\* ------------------------------------------------------ block_vertical_move
\* One pass of the for_each at candidate distance d: "panic" when a board
\* index is off the board, else whether some cell collides.
CollideAt(cells, b, d) ==
  IF \E i \in 1..Len(cells) :
        cells[i].y >= d /\ (~InBoard(cells[i].y - d) \/ ~InBoard(cells[i].x))
  THEN "panic"
  ELSE IF \E i \in 1..Len(cells) :
             cells[i].y < d \/ <<cells[i].x, cells[i].y - d>> \in b
  THEN "true" ELSE "false"

\* while !collide { down_height += 1; ... }; down_height -= 1, for a
\* non-empty set of cells: the distance, or -1 when a pass panics.
RECURSIVE DownHeightFrom(_, _, _)
DownHeightFrom(cells, b, d) ==
  LET r == CollideAt(cells, b, d)
  IN  IF r = "panic" THEN -1
      ELSE IF r = "true" THEN d - 1
      ELSE DownHeightFrom(cells, b, d + 1)

DownHeight(cells, b) == DownHeightFrom(cells, b, 1)

\* The second for_each, cell by cell in iteration order: unmark the cell's
\* position, move it down, mark the new position.  (The cells and the board
\* after one cell are bound as set elements, so that they are computed once.)
RECURSIVE DropAndMark(_, _, _, _)
DropAndMark(cells, b, d, i) ==
  IF i > Len(cells) THEN [cells |-> cells, board |-> b, panic |-> FALSE]
  ELSE LET c == cells[i]
       IN  IF ~InBoard(c.y) \/ ~InBoard(c.x) \/ ~InBoard(c.y - d)
           THEN [cells |-> cells, board |-> b, panic |-> TRUE]
           ELSE CHOOSE r \in
                  {DropAndMark(cells1, b1, d, i + 1) :
                     cells1 \in {[cells EXCEPT ![i].y = c.y - d]},
                     b1 \in {(b \ {<<c.x, c.y>>}) \cup {<<c.x, c.y - d>>}}} : TRUE

\* hardDrop on a non-empty set of falling cells.
VerticalMove(cells, b) ==
  LET d == DownHeight(cells, b)
  IN  IF d < 0 THEN [cells |-> cells, board |-> b, panic |-> TRUE]
      ELSE DropAndMark(cells, b, d, 1)

\* ------------------------------------------------------------- block_rotate
\* rot_matrix = [[0, 1], [-1, 0]]
rot_matrix == << <<0, 1>>, <<-1, 0>> >>

\* calc_rotated_pos returning the relative offset it was given.
calc_rotated_pos_stale(c) ==
  LET origin_pos_x == c.x - c.rx
      origin_pos_y == c.y - c.ry
      new_r_pos_x == rot_matrix[1][1] * c.rx + rot_matrix[1][2] * c.ry
      new_r_pos_y == rot_matrix[2][1] * c.rx + rot_matrix[2][2] * c.ry
  IN  [x |-> origin_pos_x + new_r_pos_x, y |-> origin_pos_y + new_r_pos_y,
       rx |-> c.rx, ry |-> c.ry]

calc_rotated_pos(c) ==
  LET origin_pos_x == c.x - c.rx
      origin_pos_y == c.y - c.ry
      new_r_pos_x == rot_matrix[1][1] * c.rx + rot_matrix[1][2] * c.ry
      new_r_pos_y == rot_matrix[2][1] * c.rx + rot_matrix[2][2] * c.ry
  IN  [x |-> origin_pos_x + new_r_pos_x, y |-> origin_pos_y + new_r_pos_y,
       rx |-> new_r_pos_x, ry |-> new_r_pos_y]

\* The closure of rotable for one cell.
RotableCell(c, b) ==
  LET n == calc_rotated_pos(c)
      valid_index_x == n.x >= 0 /\ n.x < X_LENGTH
      valid_index_y == n.y >= 0 /\ n.y < Y_LENGTH
  IN  IF ~valid_index_x \/ ~valid_index_y THEN FALSE
      ELSE <<n.x, n.y>> \notin b

Rotable(cells, b) == \A i \in 1..Len(cells) : RotableCell(cells[i], b)

RotateCells(cells) == [i \in 1..Len(cells) |-> calc_rotated_pos(cells[i])]

\* -------------------------------------------------------------- delete_line
\* The rows of [0, Y_LENGTH) whose X_LENGTH columns are all marked.
DeleteLineSet(b) ==
  {y \in 0..(Y_LENGTH - 1) : \A x \in 0..(X_LENGTH - 1) : <<x, y>> \in b}

\* The first pass: unmark the locked cells of the rows to delete.
UnmarkDeleted(cells, b, lines) ==
  b \ {<<cells[i].x, cells[i].y>> : i \in {j \in 1..Len(cells) : cells[j].y \in lines}}

\* new_y[y] for a row of [0, Y_LENGTH)
NewY(y, lines) == y - Cardinality({l \in lines : y > l})

\* The second pass, cell by cell in iteration order: a surviving cell is
\* unmarked, renumbered through new_y (a Vec of length Y_LENGTH) and marked.
RECURSIVE Compact(_, _, _, _)
Compact(cells, b, lines, i) ==
  IF i > Len(cells) THEN [cells |-> cells, board |-> b, panic |-> FALSE]
  ELSE LET c == cells[i]
       IN  IF c.y \in lines THEN Compact(cells, b, lines, i + 1)
           ELSE IF ~InBoard(c.y) \/ ~InBoard(c.x) \/ c.y >= Y_LENGTH
           THEN [cells |-> cells, board |-> b, panic |-> TRUE]
           ELSE CHOOSE r \in
                  {Compact(cells1, b1, lines, i + 1) :
                     cells1 \in {[cells EXCEPT ![i].y = NewY(c.y, lines)]},
                     b1 \in {(b \ {<<c.x, c.y>>})
                               \cup {<<c.x, NewY(c.y, lines)>>}}} : TRUE

\* World::despawn of one table row: the last row takes its place.
SwapRemove(s, i) ==
  IF i = Len(s) THEN SubSeq(s, 1, Len(s) - 1)
  ELSE [SubSeq(s, 1, Len(s) - 1) EXCEPT ![i] = s[Len(s)]]

\* The despawn commands of delete_line, applied in the order they were
\* queued; cells are tagged with the row they had when the query ran.
RECURSIVE Despawn(_, _)
Despawn(tagged, ids) ==
  IF ids = <<>> THEN tagged
  ELSE LET p == CHOOSE k \in 1..Len(tagged) : tagged[k][1] = Head(ids)
       IN  CHOOSE r \in
             {Despawn(tagged1, Tail(ids)) : tagged1 \in {SwapRemove(tagged, p)}} : TRUE

\* `before` are the cells the query saw, `after` the same rows renumbered.
DespawnLines(before, after, lines) ==
  LET tagged == [i \in 1..Len(after) |-> <<i, after[i]>>]
      ids == SelectSeq([i \in 1..Len(before) |-> i], LAMBDA i : before[i].y \in lines)
      left == Despawn(tagged, ids)
  IN  [i \in 1..Len(left) |-> left[i][2]]

DeleteLine(cells, b) ==
  LET lines == DeleteLineSet(b)
      r == Compact(cells, UnmarkDeleted(cells, b, lines), lines, 1)
  IN  [cells |-> DespawnLines(cells, r.cells, lines), board |-> r.board,
       panic |-> r.panic]

\* -------------------------------------------------------------------- state
VARIABLES
  free_blocks,      \* the Free entities (Position, RelativePosition), in table order
  fixed_blocks,     \* the Fix entities (Position), in table order
  game_board,       \* GameBoard: the coordinates <<x, y>> whose entry is true
  game_timer_fin,   \* GameTimer.0.finished()
  input_timer_fin,  \* InputTimer.0.finished()
  new_block_events, \* Events<NewBlockEvent> not yet read by spawn_block:
                    \* <<sent in the previous frame, sent in this frame>>
  gameover_events,  \* Events<GameOverEvent>: <<previous frame, this frame>>
  commands,         \* the Commands queued in Update, applied when it ends
  pc,               \* the system that runs next, "panic" or "hang"
  opening,          \* the scripted opening being played and the frame reached
  keys_left,        \* key presses left to the player after the opening
  spawns_left       \* spawn requests that may be served after the opening

vars == <<free_blocks, fixed_blocks, game_board, game_timer_fin, input_timer_fin,
          new_block_events, gameover_events, commands, pc, opening, keys_left,
          spawns_left>>

NoCommands == [spawn |-> <<>>, lock |-> FALSE, despawn |-> FALSE]

InScript == opening[2] <= Len(Scripts[opening[1]])
Scripted == Scripts[opening[1]][opening[2]]

\* The inputs a system may see this frame.
ShapeInputs == IF InScript THEN {Scripted.shape} ELSE next_block
TickInputs == IF InScript THEN {Scripted.tick} ELSE 0..2
KeyInputs(k) ==
  IF InScript THEN {k \in Scripted.keys}
  ELSE IF keys_left > 0 THEN BOOLEAN ELSE {FALSE}

\* The systems of one frame in the order main() adds them, and the command
\* application that ends Update.
Systems == << "delete_line", "spawn_block", "game_timer", "block_horizontal_move",
              "block_vertical_move", "block_rotate", "block_fall", "gameover",
              "apply_deferred" >>

\* A system that is certain to take its early return and change nothing:
\* its timer has not finished, it has no event to read, or its key cannot be
\* pressed in this frame.
Returns(sys, gtf, itf, nbe, goe, kl) ==
  CASE sys = "delete_line" -> ~gtf
    [] sys = "spawn_block" -> nbe = <<0, 0>>
    [] sys = "block_horizontal_move" -> ~itf
    [] sys = "block_vertical_move" ->
         IF InScript THEN "Down" \notin Scripted.keys ELSE kl = 0
    [] sys = "block_rotate" ->
         IF InScript THEN "Up" \notin Scripted.keys ELSE kl = 0
    [] sys = "block_fall" -> ~gtf
    [] sys = "gameover" -> goe = <<0, 0>>
    [] OTHER -> FALSE

\* The system that runs after the i-th: the systems between that only take
\* their early return are passed over.  apply_deferred ends the frame and
\* game_timer runs in every frame, so the search ends.
RECURSIVE Following(_, _, _, _, _, _)
Following(i, gtf, itf, nbe, goe, kl) ==
  LET n == IF i = Len(Systems) THEN 1 ELSE i + 1
  IN  IF Returns(Systems[n], gtf, itf, nbe, goe, kl)
      THEN Following(n, gtf, itf, nbe, goe, kl)
      ELSE Systems[n]

\* setup sends the first NewBlockEvent at Startup; the model starts in the
\* First schedule of the first frame.
Init ==
  /\ free_blocks = <<>>
  /\ fixed_blocks = <<>>
  /\ game_board = {}
  /\ game_timer_fin = FALSE
  /\ input_timer_fin = FALSE
  /\ new_block_events = <<1, 0>>
  /\ gameover_events = <<0, 0>>
  /\ commands = NoCommands
  /\ pc = "spawn_block"
  /\ opening \in {<<s, 1>> : s \in 1..Len(Scripts)}
  /\ keys_left = MaxKeys
  /\ spawns_left = MaxSpawns

\* ------------------------------------------------------------------ actions
\* Each action is one system run; pc' is the next system that does not only
\* take its early return.
delete_line ==
  /\ pc = "delete_line"
  /\ game_timer_fin
  /\ LET r == DeleteLine(fixed_blocks, game_board)
     IN  IF r.panic
         THEN /\ pc' = "panic"
              /\ UNCHANGED <<fixed_blocks, game_board>>
         ELSE /\ pc' = Following(1, game_timer_fin, input_timer_fin,
                                 new_block_events, gameover_events, keys_left)
              /\ fixed_blocks' = r.cells
              /\ game_board' = r.board
  /\ UNCHANGED <<free_blocks, game_timer_fin, input_timer_fin, new_block_events,
                 gameover_events, commands, opening, keys_left, spawns_left>>

spawn_block ==
  /\ pc = "spawn_block"
  /\ new_block_events # <<0, 0>>
  /\ InScript \/ spawns_left > 0
  /\ spawns_left' = IF InScript THEN spawns_left ELSE spawns_left - 1
  /\ new_block_events' =
       IF new_block_events[1] > 0
       THEN <<new_block_events[1] - 1, new_block_events[2]>>
       ELSE <<0, new_block_events[2] - 1>>
  /\ \E shape \in ShapeInputs :
       IF SpawnCollides(shape, game_board)
       THEN /\ gameover_events' = <<gameover_events[1], gameover_events[2] + 1>>
            /\ UNCHANGED commands
       ELSE /\ commands' = [commands EXCEPT !.spawn = SpawnCells(shape)]
            /\ UNCHANGED gameover_events
  /\ pc' = "game_timer"
  /\ UNCHANGED <<free_blocks, fixed_blocks, game_board, game_timer_fin,
                 input_timer_fin, opening, keys_left>>

game_timer ==
  /\ pc = "game_timer"
  /\ \E tick \in TickInputs :
       /\ game_timer_fin' = (tick = 2)
       /\ input_timer_fin' = (tick >= 1)
  /\ pc' = Following(3, game_timer_fin', input_timer_fin', new_block_events,
                     gameover_events, keys_left)
  /\ UNCHANGED <<free_blocks, fixed_blocks, game_board, new_block_events,
                 gameover_events, commands, opening, keys_left, spawns_left>>

block_horizontal_move ==
  /\ pc = "block_horizontal_move"
  /\ input_timer_fin
  /\ \E left \in KeyInputs("Left"), right \in KeyInputs("Right") :
       LET r == HorizontalMove(free_blocks, game_board, left, right)
       IN  /\ keys_left' = IF InScript \/ ~(left \/ right) THEN keys_left
                           ELSE keys_left - 1
           /\ IF r.panic
              THEN /\ pc' = "panic"
                   /\ UNCHANGED free_blocks
              ELSE /\ pc' = Following(4, game_timer_fin, input_timer_fin,
                                      new_block_events, gameover_events, keys_left')
                   /\ free_blocks' = r.cells
  /\ UNCHANGED <<fixed_blocks, game_board, game_timer_fin, input_timer_fin,
                 new_block_events, gameover_events, commands, opening, spawns_left>>

\* With no Free entity the while loop never sets collide: down_height grows
\* until the i32 overflows, which panics in a debug build and wraps, looping
\* for ever, in a release build.
block_vertical_move ==
  /\ pc = "block_vertical_move"
  /\ \E down \in KeyInputs("Down") :
       /\ keys_left' = IF InScript \/ ~down THEN keys_left ELSE keys_left - 1
       /\ IF ~down
          THEN /\ pc' = Following(5, game_timer_fin, input_timer_fin,
                                  new_block_events, gameover_events, keys_left')
               /\ UNCHANGED <<free_blocks, game_board>>
          ELSE IF free_blocks = <<>>
          THEN /\ pc' \in {"panic", "hang"}
               /\ UNCHANGED <<free_blocks, game_board>>
          ELSE LET r == VerticalMove(free_blocks, game_board)
               IN  IF r.panic
                   THEN /\ pc' = "panic"
                        /\ UNCHANGED <<free_blocks, game_board>>
                   ELSE /\ pc' = Following(5, game_timer_fin, input_timer_fin,
                                           new_block_events, gameover_events,
                                           keys_left')
                        /\ free_blocks' = r.cells
                        /\ game_board' = r.board
  /\ UNCHANGED <<fixed_blocks, game_timer_fin, input_timer_fin, new_block_events,
                 gameover_events, commands, opening, spawns_left>>

block_rotate ==
  /\ pc = "block_rotate"
  /\ \E up \in KeyInputs("Up") :
       /\ keys_left' = IF InScript \/ ~up THEN keys_left ELSE keys_left - 1
       /\ free_blocks' = IF up /\ Rotable(free_blocks, game_board)
                         THEN RotateCells(free_blocks) ELSE free_blocks
  /\ pc' = Following(6, game_timer_fin, input_timer_fin, new_block_events,
                     gameover_events, keys_left')
  /\ UNCHANGED <<fixed_blocks, game_board, game_timer_fin, input_timer_fin,
                 new_block_events, gameover_events, commands, opening, spawns_left>>

block_fall ==
  /\ pc = "block_fall"
  /\ game_timer_fin
  /\ IF CannotFall(free_blocks, game_board)
     THEN IF LockPanics(free_blocks)
          THEN /\ pc' = "panic"
               /\ UNCHANGED <<free_blocks, game_board, new_block_events, commands>>
          ELSE /\ game_board' = LockMarks(free_blocks, game_board)
               /\ commands' = [commands EXCEPT !.lock = TRUE]
               /\ new_block_events' = <<new_block_events[1], new_block_events[2] + 1>>
               /\ pc' = Following(7, game_timer_fin, input_timer_fin,
                                  new_block_events', gameover_events, keys_left)
               /\ UNCHANGED free_blocks
     ELSE /\ free_blocks' =
               IF \E i \in 1..Len(free_blocks) : free_blocks[i].y > -MaxDepth
               THEN FallCells(free_blocks) ELSE free_blocks
          /\ pc' = Following(7, game_timer_fin, input_timer_fin,
                             new_block_events, gameover_events, keys_left)
          /\ UNCHANGED <<game_board, new_block_events, commands>>
  /\ UNCHANGED <<fixed_blocks, game_timer_fin, input_timer_fin, gameover_events,
                 opening, keys_left, spawns_left>>

\* gameover assigning no new board.
ResetBoard_kept(b) == b

\* game_board.0 = vec![vec![false; 25]; 25]
ResetBoard(b) == {}

\* gameover reads through a fresh reader, which sees every GameOverEvent still
\* in the two buffers.
gameover ==
  /\ pc = "gameover"
  /\ gameover_events # <<0, 0>>
  /\ game_board' = ResetBoard(game_board)
  /\ commands' = [commands EXCEPT !.despawn = TRUE]
  /\ new_block_events' = <<new_block_events[1], new_block_events[2] + 1>>
  /\ pc' = "apply_deferred"
  /\ UNCHANGED <<free_blocks, fixed_blocks, game_timer_fin, input_timer_fin,
                 gameover_events, opening, keys_left, spawns_left>>

\* The end of Update: the queues of spawn_block, block_fall and gameover are
\* applied in that order to the entities the systems saw; then, in First of
\* the next frame, Events::update drops the older buffer of each event type.
apply_deferred ==
  /\ pc = "apply_deferred"
  /\ LET locked == [i \in 1..Len(free_blocks) |->
                      [x |-> free_blocks[i].x, y |-> free_blocks[i].y]]
         fixed1 == IF commands.lock THEN fixed_blocks \o locked ELSE fixed_blocks
         free1 == IF commands.lock THEN <<>> ELSE free_blocks
     IN  /\ fixed_blocks' = IF commands.despawn THEN <<>> ELSE fixed1
         /\ free_blocks' = (IF commands.despawn THEN <<>> ELSE free1) \o commands.spawn
  /\ commands' = NoCommands
  /\ new_block_events' = <<new_block_events[2], 0>>
  /\ gameover_events' = <<gameover_events[2], 0>>
  /\ opening' = IF InScript THEN <<opening[1], opening[2] + 1>> ELSE opening
  /\ pc' = Following(9, game_timer_fin, input_timer_fin, new_block_events',
                     gameover_events', keys_left)
  /\ UNCHANGED <<game_board, game_timer_fin, input_timer_fin, keys_left, spawns_left>>

Next ==
  \/ delete_line
  \/ spawn_block
  \/ game_timer
  \/ block_horizontal_move
  \/ block_vertical_move
  \/ block_rotate
  \/ block_fall
  \/ gameover
  \/ apply_deferred

Spec == Init /\ [][Next]_vars

\* The frame in which the 400 ms GameTimer finishes.
GravityTick == game_timer /\ game_timer_fin'

\* The schedule runs every system of every frame, and time passes: the
\* repeating GameTimer finishes again and again.
FairSpec == Spec /\ WF_vars(Next) /\ SF_vars(GravityTick)

\* ------------------------------------------------------------------- claims
Pos(c) == <<c.x, c.y>>

Positions(cells) == {Pos(cells[i]) : i \in 1..Len(cells)}

\* The cells that are falling and the coordinates that are locked, the
\* commands queued in this frame counted as done.
Falling == IF commands.lock \/ commands.despawn THEN <<>> ELSE free_blocks

Locked ==
  IF commands.despawn THEN {}
  ELSE Positions(fixed_blocks)
         \cup (IF commands.lock THEN Positions(free_blocks) ELSE {})

\* The key a system saw pressed in the step it takes.
Pressed(k) == IF InScript THEN k \in Scripted.keys ELSE keys_left' < keys_left

\* C1: in every reachable state no cell of the falling piece has the same
\* coordinate as a locked cell.
C1_NoOverlap == Positions(Falling) \cap Locked = {}

\* C2: in every reachable state an entry of BoardGrid is true if and only if
\* a locked cell is at that coordinate; the falling piece is never marked.
C2_BoardIsLocked == game_board = Locked

\* C3: in every reachable state the number of falling cells is 0 or 4: at
\* most one piece is falling.
C3_OnePiece == Len(Falling) \in {0, 4}

\* C4: shiftHorizontal moves all falling cells by the same single column or
\* moves none, never changes a row, and never moves a cell to a column
\* outside [0, W) or onto a locked cell.
C4_ShiftHorizontal ==
  [][pc = "block_horizontal_move" /\ pc' # "panic" =>
       \E dx \in {-1, 0, 1} :
          /\ free_blocks' = ShiftCells(free_blocks, dx)
          /\ dx # 0 => \A i \in 1..Len(free_blocks') :
                          /\ free_blocks'[i].x \in 0..(X_LENGTH - 1)
                          /\ Pos(free_blocks'[i]) \notin Locked]_vars

\* At distance k below its place, no cell of the piece is below row 0 or on a
\* locked cell.
ClearAt(cells, k) ==
  \A i \in 1..Len(cells) :
     cells[i].y - k >= 0 /\ <<cells[i].x, cells[i].y - k>> \notin Locked

\* C5: hardDrop moves all falling cells down by one common distance d >= 0,
\* columns unchanged; every distance 1..d is collision-free and d + 1 is not.
C5_HardDropDistance ==
  [][pc = "block_vertical_move" /\ Pressed("Down") /\ free_blocks # <<>> =>
       /\ pc' \notin {"panic", "hang"}
       /\ \E d \in 0..BOARD_SIZE :
            /\ free_blocks' = [i \in 1..Len(free_blocks) |->
                                 [free_blocks[i] EXCEPT !.y = @ - d]]
            /\ \A k \in 1..d : ClearAt(free_blocks, k)
            /\ ~ClearAt(free_blocks, d + 1)]_vars

\* C6: a second hardDrop right after a hardDrop changes no cell and no
\* BoardGrid entry.
C6_HardDropIdempotent ==
  [][pc = "block_vertical_move" /\ Pressed("Down") /\ free_blocks # <<>>
       /\ pc' \notin {"panic", "hang"} =>
       VerticalMove(free_blocks', game_board') =
         [cells |-> free_blocks', board |-> game_board', panic |-> FALSE]]_vars

\* k applications of the rotation transform to one cell.
RECURSIVE RotatedTimes(_, _)
RotatedTimes(c, k) == IF k = 0 THEN c ELSE RotatedTimes(calc_rotated_pos(c), k - 1)

\* The rotation transform applied four times to a cell of a catalog shape in
\* any of its four orientations gives the cell back.
CatalogRotatesBack ==
  \A s \in 1..Len(BlockPatterns), i \in 1..4, k \in 0..3 :
     LET c == RotatedTimes(SpawnCells(s)[i], k)
     IN  RotatedTimes(c, 4) = c

\* C7: for every catalog shape and every starting orientation the rotation
\* transform applied four times returns every cell to its relative offset,
\* and an accepted rotation followed by three more returns every cell to its
\* position, the anchor cell not moving at all.
C7_RotateFourTimes ==
  [][pc = "block_rotate" =>
       /\ CatalogRotatesBack
       /\ free_blocks' # free_blocks =>
            \A i \in 1..Len(free_blocks) :
               /\ free_blocks'[i] = calc_rotated_pos(free_blocks[i])
               /\ RotatedTimes(free_blocks'[i], 3) = free_blocks[i]
               /\ (free_blocks[i].rx = 0 /\ free_blocks[i].ry = 0)
                    => Pos(free_blocks'[i]) = Pos(free_blocks[i])]_vars

\* The I piece of RotateOpening, rotated three times there, is rotated a
\* fourth time by the player and is back where it was before the first
\* rotation.
C7_Witness ==
  /\ Scripts[opening[1]] = RotateOpening /\ ~InScript
  /\ keys_left = MaxKeys - 1
  /\ free_blocks = [i \in 1..4 |->
                      [SpawnCells(ShapeI)[i] EXCEPT !.y = @ - 3]]

\* Every rotated cell is on the visible board and its destination is not a
\* locked cell.
RotationFits(cells) ==
  \A i \in 1..Len(cells) :
     LET n == calc_rotated_pos(cells[i])
     IN  /\ n.x \in 0..(X_LENGTH - 1)
         /\ n.y \in 0..(Y_LENGTH - 1)
         /\ Pos(n) \notin Locked

\* C8: rotate is applied to all cells exactly when every rotated cell is in
\* [0, W) x [0, H) and its destination is not locked; otherwise every
\* position, every relative offset and BoardGrid are as before.
C8_RotateAllOrNothing ==
  [][pc = "block_rotate" /\ Pressed("Up") /\ free_blocks # <<>> =>
       /\ game_board' = game_board
       /\ IF RotationFits(free_blocks)
          THEN free_blocks' = RotateCells(free_blocks)
          ELSE free_blocks' = free_blocks]_vars

\* The rows of [0, H) whose W columns all hold a locked cell.
FullRows(cells) ==
  {y \in 0..(Y_LENGTH - 1) :
     \A x \in 0..(X_LENGTH - 1) : <<x, y>> \in Positions(cells)}

\* The number of cells at each coordinate.
CountAt(cells, p) == Cardinality({i \in 1..Len(cells) : Pos(cells[i]) = p})

\* The locked cells outside the full rows, each moved down by the number of
\* full rows strictly below it: how many end at coordinate p.
CompactedAt(cells, p) ==
  LET rows == FullRows(cells)
  IN  Cardinality({i \in 1..Len(cells) :
         /\ cells[i].y \notin rows
         /\ cells[i].x = p[1]
         /\ cells[i].y - Cardinality({l \in rows : l < cells[i].y}) = p[2]})

\* C9: the line clear removes exactly the locked cells of the full rows and
\* moves every other locked cell down by the number of full rows strictly
\* below it, column unchanged; none is lost or duplicated and no two end on
\* the same coordinate.
C9_LineClear ==
  [][pc = "delete_line" /\ game_timer_fin =>
       /\ pc' # "panic"
       /\ \A x \in 0..(BOARD_SIZE - 1), y \in 0..(BOARD_SIZE - 1) :
            /\ CountAt(fixed_blocks', <<x, y>>) = CompactedAt(fixed_blocks, <<x, y>>)
            /\ CountAt(fixed_blocks', <<x, y>>) <= 1]_vars

C11_GameOverReset ==
  [][/\ pc = "spawn_block" =>
          \E shape \in ShapeInputs :
             IF SpawnCollides(shape, game_board)
             THEN /\ gameover_events' = <<gameover_events[1], gameover_events[2] + 1>>
                  /\ commands' = commands
                  /\ free_blocks' = free_blocks
             ELSE /\ gameover_events' = gameover_events
                  /\ commands'.spawn = SpawnCells(shape)
     /\ pc = "gameover" =>
          /\ game_board' = {}
          /\ commands'.despawn
          /\ new_block_events' = <<new_block_events[1], new_block_events[2] + 1>>
     /\ pc = "apply_deferred" /\ commands.despawn =>
          /\ game_board' = {}
          /\ fixed_blocks' = <<>>
          /\ free_blocks' = commands.spawn]_vars

\* The frame of CollisionOpening in which the I collides with the stack has
\* ended: the GameOver is in the older buffer, the board and the cells are
\* gone and one spawn is requested.
C11_Witness ==
  /\ Scripts[opening[1]] = CollisionOpening
  /\ gameover_events = <<1, 0>>
  /\ new_block_events = <<1, 0>>
  /\ game_board = {} /\ fixed_blocks = <<>> /\ free_blocks = <<>>
  /\ commands = NoCommands

\* The cells of a spawn command are the I of the catalog.
SpawnsI(spawn) ==
  {<<spawn[i].rx, spawn[i].ry>> : i \in 1..Len(spawn)}
    = {BlockPatterns[ShapeI][i] : i \in 1..Len(BlockPatterns[ShapeI])}

\* On the empty board with no cell, a spawn finds no collision, and when the
\* I is drawn the frame ends with exactly four falling cells, at `at`: the
\* steps that do so.
SpawnsIAt(at) ==
  /\ (pc = "spawn_block" /\ game_board = {}) =>
       /\ gameover_events' = gameover_events
       /\ Len(commands'.spawn) = 4
  /\ (/\ pc = "apply_deferred" /\ SpawnsI(commands.spawn)
      /\ game_board = {} /\ fixed_blocks = <<>> /\ free_blocks = <<>>) =>
       /\ Len(free_blocks') = 4
       /\ Positions(free_blocks') = at
       /\ Cardinality(at) = 4

\* C12 as the scenario states it: on the empty board the I spawned at anchor
\* (5, 18) raises no collision and gives four falling cells at (5, 16),
\* (5, 17), (5, 18) and (5, 20).
C12_SpawnI_Stated ==
  [][SpawnsIAt({<<5, 16>>, <<5, 17>>, <<5, 18>>, <<5, 20>>})]_vars

\* C12: on the empty board the I spawned at anchor (5, 18) raises no
\* collision and gives exactly four falling cells, at the anchor plus each
\* offset: (5, 18), (5, 17), (5, 19) and (5, 20).
C12_SpawnI ==
  [][SpawnsIAt({<<5, 18>>, <<5, 17>>, <<5, 19>>, <<5, 20>>})]_vars

\* The first frame of the opening that draws the I has ended: its four cells
\* are falling over the empty board.
C12_Witness ==
  /\ Scripts[opening[1]] = ShapeOpenings[ShapeI] /\ opening[2] = 2
  /\ Len(free_blocks) = 4 /\ Positions(free_blocks) = Positions(SpawnCells(ShapeI))
  /\ game_board = {} /\ fixed_blocks = <<>>
  /\ pc = "game_timer"

\* C13: no system ever indexes BoardGrid or the new-row table of the line
\* clear out of bounds: no step ends in a panic (the hard drop with no
\* falling cell, whose search does not end, left aside).
C13_NoPanic ==
  [][pc' = "panic" => pc = "block_vertical_move" /\ free_blocks = <<>>]_vars

\* C14: the distance search of hardDrop ends in the frame that started it,
\* also when Down is pressed in a frame with no falling cell.
C14_HardDropTerminates ==
  [][pc = "block_vertical_move" /\ Pressed("Down") =>
       /\ pc' # "hang"
       /\ free_blocks = <<>> => pc' # "panic"]_vars

\* Some cell of the piece is at row 0 or has a locked cell directly below it.
Rests(cells) ==
  \E i \in 1..Len(cells) :
     cells[i].y = 0 \/ <<cells[i].x, cells[i].y - 1>> \in Locked

\* C15: on a gravity tick with a falling piece, the piece is judged unable to
\* fall exactly when some cell of it is at row 0 or has a locked cell directly
\* below it, at any row; when it can fall, all its cells move down by one row,
\* columns unchanged, and none reaches a row below 0.
C15_GravityJudgement ==
  [][pc = "block_fall" /\ game_timer_fin /\ free_blocks # <<>> =>
       IF Rests(free_blocks)
       THEN commands'.lock /\ free_blocks' = free_blocks
       ELSE /\ ~commands'.lock
            /\ free_blocks' = FallCells(free_blocks)
            /\ \A i \in 1..Len(free_blocks') : free_blocks'[i].y >= 0]_vars

\* C16: when the line clear has run on a board that agreed with the locked
\* cells, a BoardGrid entry is true exactly where a surviving locked cell is,
\* whatever order the cells were visited in.
C16_CompactionBoard ==
  [][(/\ pc = "delete_line" /\ game_timer_fin /\ pc' # "panic"
      /\ game_board = Positions(fixed_blocks)) =>
       game_board' = Positions(fixed_blocks')]_vars

\* C17: the frame after a lock starts with the line clear, before the spawn
\* the lock requested is considered, and the rows the line clear takes for
\* full are exactly the rows whose W columns all hold a locked cell: it sees
\* nothing but locked cells.
C17_ClearBeforeSpawn ==
  [][/\ (pc = "apply_deferred" /\ commands.lock) => pc' = "delete_line"
     /\ (pc = "delete_line" /\ game_timer_fin) =>
          DeleteLineSet(game_board) = FullRows(fixed_blocks)]_vars

\* The run is over: a system has crashed or does not return, or the bounded
\* play has no spawn left for the request that is pending.
Stopped ==
  \/ pc \in {"panic", "hang"}
  \/ pc = "spawn_block" /\ ~InScript /\ spawns_left = 0

C19_LockedImmutable ==
  [][(pc \in {"spawn_block", "block_horizontal_move", "block_vertical_move",
               "block_rotate", "block_fall"}) =>
       /\ fixed_blocks' = fixed_blocks
       /\ \A p \in Positions(fixed_blocks) \cap game_board : p \in game_board'
  ]_vars

\* The relative offsets of the cells are those of a catalog shape rotated a
\* whole number of times.
RotatedCatalogShape(cells) ==
  \E s \in 1..Len(BlockPatterns), k \in 0..3 :
     {<<cells[i].rx, cells[i].ry>> : i \in 1..Len(cells)}
       = {<<RotatedTimes(SpawnCells(s)[i], k).rx,
            RotatedTimes(SpawnCells(s)[i], k).ry>> : i \in 1..4}

\* The cells are one piece: four cells with one anchor, one of them at it.
OneAnchor(cells) ==
  /\ Len(cells) = 4
  /\ \A i, j \in 1..Len(cells) :
        /\ cells[i].x - cells[i].rx = cells[j].x - cells[j].rx
        /\ cells[i].y - cells[i].ry = cells[j].y - cells[j].ry
  /\ Cardinality({i \in 1..Len(cells) : cells[i].rx = 0 /\ cells[i].ry = 0}) = 1

\* C20: whenever a piece is falling, its 4 cells agree on the anchor
\* (position minus relative offset), exactly one cell has the relative offset
\* (0,0), and the relative offsets are a catalog shape rotated a whole number
\* of times.
C20_AnchorAgreement ==
  Falling # <<>> => OneAnchor(Falling) /\ RotatedCatalogShape(Falling)

====
